---- MODULE Spec2Model ----
(***************************************************************************)
(* Model of the BAM uploader (src/main.py): APIClient (token handling and  *)
(* the three remote operations), FlagFileHandler (watchdog handler and the *)
(* upload orchestration) and the startup part of main().                   *)
(*                                                                         *)
(* main() constructs the APIClient, then starts the observer thread, which *)
(* takes the creation events from the observer's queue and calls           *)
(* on_created for one event at a time.  pc is the position of that control *)
(* flow (startup, then the observer thread); main is the position of the   *)
(* main thread once the observer runs.                                     *)
(***************************************************************************)
EXTENDS Integers, Sequences, FiniteSets, TLC

\* ------------------------------------------------------------------------
\* Bounds of the model
\* ------------------------------------------------------------------------
MaxEvents == 2          \* creation events delivered to on_created
MaxTouch == 1           \* modifications of the run directory by its writer

\* ------------------------------------------------------------------------
\* Program constants
\* ------------------------------------------------------------------------
\* quiet_period (seconds, scaled: the code's default is 10)
QuietPeriod == 2

\* flag_suffix=".done"; a name is the sequence of its dot-separated pieces
FlagSuffix == <<".done">>

\* ------------------------------------------------------------------------
\* Python values: None and str (a str is a sequence of characters; in a
\* token, 0 is a whitespace character and n > 0 a token character)
\* ------------------------------------------------------------------------
PyNone == [none |-> TRUE, s |-> <<>>]
PyStr(s) == [none |-> FALSE, s |-> s]
\* truthiness of "self.token": None and "" are falsy
Truthy(v) == ~v.none /\ v.s # <<>>

WS == 0

RECURSIVE LStrip(_)
LStrip(s) ==
    IF s # <<>> /\ Head(s) = WS THEN LStrip(Tail(s)) ELSE s

RECURSIVE RStrip(_)
RStrip(s) ==
    IF s # <<>> /\ s[Len(s)] = WS THEN RStrip(SubSeq(s, 1, Len(s) - 1)) ELSE s

\* str.strip()
Strip(s) == RStrip(LStrip(s))

\* ------------------------------------------------------------------------
\* Paths under the watch root: a path is the sequence of its names
\* ------------------------------------------------------------------------
N_RUN == <<"run42">>
N_UPLOAD == <<"upload", ".done">>
N_DATA == <<"data", ".csv">>
N_LOGS == <<"logs">>
N_OLD == <<"old">>
N_BAM == <<"bam">>
N_A == <<"a", ".txt">>
N_B == <<"b", ".txt">>
N_ARCHIVE == <<"archive", ".done">>

P_RUN == <<N_RUN>>
P_FLAG == <<N_RUN, N_UPLOAD>>
P_DATA == <<N_RUN, N_DATA>>
P_LOGS == <<N_RUN, N_LOGS>>
P_LOGS_A == <<N_RUN, N_LOGS, N_A>>
P_LOGS_OLD == <<N_RUN, N_LOGS, N_OLD>>
P_LOGS_OLD_B == <<N_RUN, N_LOGS, N_OLD, N_B>>
P_BAM == <<N_RUN, N_BAM>>
P_BAM_FLAG == <<N_RUN, N_BAM, N_UPLOAD>>
P_ARCHIVE == <<N_ARCHIVE>>

\* the directories of the watched tree (they exist in every tree)
Dirs == {P_RUN, P_LOGS, P_LOGS_OLD, P_BAM, P_ARCHIVE}

\* the regular files a tree may hold
AllFiles == {P_FLAG, P_DATA, P_LOGS_A, P_LOGS_OLD_B, P_BAM_FLAG}

\* the trees the model starts from
Trees ==
    { {},
      {P_FLAG},
      {P_FLAG, P_DATA},
      {P_FLAG, P_LOGS_A, P_LOGS_OLD_B},
      {P_FLAG, P_DATA, P_LOGS_A, P_BAM_FLAG},
      {P_DATA, P_LOGS_A} }

\* pathlib: Path.parent, Path.name
Parent(p) == SubSeq(p, 1, Len(p) - 1)
Name(p) == p[Len(p)]

\* str.endswith
EndsWith(name, suffix) ==
    /\ Len(suffix) <= Len(name)
    /\ SubSeq(name, Len(name) - Len(suffix) + 1, Len(name)) = suffix

IsUnder(d, p) == Len(d) < Len(p) /\ SubSeq(p, 1, Len(d)) = d

\* ------------------------------------------------------------------------
\* HTTP responses: a response with a status code, or a transport error
\* (requests.RequestException)
\* ------------------------------------------------------------------------
Http(st) == [exc |-> FALSE, status |-> st]
TransportError == [exc |-> TRUE, status |-> 0]

Responses == {Http(200), Http(401), Http(500), TransportError}

\* the answers to an upload the model distinguishes
UploadResponses == {Http(200), Http(500), TransportError}

\* response.raise_for_status(), and the request itself raising
Raises(resp) == resp.exc \/ resp.status >= 400

\* the creation events the watcher may deliver
Events ==
    { [is_directory |-> FALSE, src_path |-> P_FLAG],
      [is_directory |-> FALSE, src_path |-> P_BAM_FLAG],
      [is_directory |-> FALSE, src_path |-> P_DATA],
      [is_directory |-> TRUE, src_path |-> P_LOGS],
      [is_directory |-> TRUE, src_path |-> P_ARCHIVE] }

\* no event yet
NoEvent == [is_directory |-> FALSE, src_path |-> <<>>]

\* the token files the process may find at startup: none, an empty one,
\* one holding only a newline, one holding a token, one holding a token
\* followed by a newline
StoredToken == <<9>>
NoFile == [exists |-> FALSE, content |-> <<>>]
File(c) == [exists |-> TRUE, content |-> c]
TokenFiles ==
    { NoFile, File(<<>>), File(<<WS>>), File(StoredToken),
      File(StoredToken \o <<WS>>) }

VARIABLES
    pc,               \* position of the control flow
    token,            \* APIClient.token
    token_file,       \* contents of the token file
    quiescent_check,  \* FlagFileHandler.quiescent_check
    files,            \* regular files of the watched tree
    mtime,            \* st_mtime of each regular file
    now,              \* time.time()
    touched,          \* modifications made by the writer so far
    flag_path,        \* argument of _handle_flag
    run_id,           \* local run_id of _handle_flag
    todo,             \* children of run_dir iterdir() has not yielded yet
    subdir,           \* argument of _upload_subdir
    subtodo,          \* entries rglob() has not yielded yet
    log,              \* requests and checks of the current event, in order
    outcome,          \* how the last orchestration pass ended
    event,            \* argument of the last on_created call
    queue,            \* the observer's queue of events not yet dispatched
    main,             \* position of the main thread
    delivered,        \* events delivered to on_created so far
    handled,          \* flag events handed to _handle_flag so far
    logins,           \* tokens the server has issued
    runs              \* runs the server has created

vars ==
    << pc, token, token_file, quiescent_check, files, mtime, now, touched,
       flag_path, run_id, todo, subdir, subtodo, log, outcome, event, queue,
       main, delivered, handled, logins, runs >>

\* ------------------------------------------------------------------------
\* Log entries
\* ------------------------------------------------------------------------
Entry(op, arg, res, id, tok) ==
    [op |-> op, arg |-> arg, res |-> res, id |-> id, tok |-> tok]

NoPath == <<>>

\* ------------------------------------------------------------------------
\* APIClient
\* ------------------------------------------------------------------------
\* _headers: the bearer token a request carries (None: no header)
headers(tok) == IF Truthy(tok) THEN tok ELSE PyNone

\* _load_token without .strip()
load_token_raw(file, tok) ==
    IF file.exists THEN PyStr(file.content) ELSE tok

\* _load_token
load_token(file, tok) ==
    IF file.exists THEN PyStr(Strip(file.content)) ELSE tok

\* _save_token
save_token(tok) == File(tok.s)

\* _is_token_valid: does it send the probe at all
ProbeSent(tok) == Truthy(tok)

\* _is_token_valid comparing the status code with the text "200": no
\* answer is ever accepted
is_token_valid_status_as_text(tok, resp) == FALSE

\* _is_token_valid with the status test left out: any answer is accepted
is_token_valid_any_status(tok, resp) ==
    IF ~Truthy(tok) THEN FALSE
    ELSE IF resp.exc THEN FALSE
    ELSE TRUE

\* _is_token_valid: its result given the probe's response
is_token_valid(tok, resp) ==
    IF ~Truthy(tok) THEN FALSE
    ELSE IF resp.exc THEN FALSE
    ELSE IF resp.status = 200 THEN TRUE
    ELSE IF 400 <= resp.status /\ resp.status < 500 THEN FALSE
    ELSE FALSE

ProbeLog(tok, resp) ==
    IF ProbeSent(tok)
    THEN <<Entry("probe", NoPath, resp, 0, headers(tok))>>
    ELSE <<>>

\* the "access" field of a login response: missing, empty, or a new token
AccessValues(n) == {PyNone, PyStr(<<>>), PyStr(<<n>>)}

\* authenticate: the request and what its response holds
login(resp, access) == Entry("login", NoPath, resp, 0, access)

\* authenticate: the token after the call
authenticate_token(tok, resp, access) ==
    IF Raises(resp) THEN tok ELSE access

\* authenticate without the "if not self.token" test
authenticate_raises_status_only(resp, access) == Raises(resp)

\* authenticate: does the call raise
authenticate_raises(resp, access) ==
    Raises(resp) \/ ~Truthy(access)

\* create_run without raise_for_status(): only a failed request raises
create_run_raises_transport_only(resp) == resp.exc

\* create_run: does the call raise (the request fails or the server
\* rejects it)
create_run_raises(resp) == Raises(resp)

\* create_run: the request as the server sees it
create_run(run_name, tok, resp, id) ==
    Entry("create_run", run_name, resp, id, headers(tok))

\* upload_file: does the call raise
upload_file_raises(resp) == Raises(resp)

\* upload_file posting to the attachments of the run created before this one
upload_file_previous_run(rid, file_path, tok, resp) ==
    Entry("upload_file", file_path, resp, rid - 1, headers(tok))

\* upload_file: the request as the server sees it
upload_file(rid, file_path, tok, resp) ==
    Entry("upload_file", file_path, resp, rid, headers(tok))

\* ------------------------------------------------------------------------
\* The filesystem as pathlib shows it
\* ------------------------------------------------------------------------
is_file(p) == p \in files
is_dir(p) == p \in Dirs

\* Path.iterdir(): the children of a directory
iterdir(d) == {p \in files \cup Dirs : Len(p) = Len(d) + 1 /\ IsUnder(d, p)}

\* Path.rglob('*'): every entry below a directory
rglob(d) == {p \in files \cup Dirs : IsUnder(d, p)}

SetMax(S) == CHOOSE m \in S : \A x \in S : x <= m

\* _is_directory_quiescent: max() of an empty sequence raises ValueError
quiescent_raises(path) == {f \in rglob(path) : is_file(f)} = {}

\* _is_directory_quiescent accepting an age equal to the quiet period
is_directory_quiescent_at_least(path) ==
    LET latest_mtime == SetMax({mtime[f] : f \in {g \in rglob(path) : is_file(g)}})
        age == now - latest_mtime
    IN  age >= QuietPeriod

\* _is_directory_quiescent: its result when it does not raise
is_directory_quiescent(path) ==
    LET latest_mtime == SetMax({mtime[f] : f \in {g \in rglob(path) : is_file(g)}})
        age == now - latest_mtime
    IN  age > QuietPeriod

\* _handle_flag: run_dir, run_name
run_dir == Parent(flag_path)
run_name == Name(run_dir)

\* the test with the flag-name comparison left out
is_root_target_any_file(sub, flag) == is_file(sub)

\* _handle_flag: the test that lets a child of run_dir be uploaded directly
is_root_target(sub, flag) == is_file(sub) /\ Name(sub) # Name(flag)

\* the test without "if event.is_directory: return"
is_flag_event_any_entry(ev) == EndsWith(Name(ev.src_path), FlagSuffix)

\* on_created: the test that hands an event to _handle_flag
is_flag_event(ev) ==
    ~ev.is_directory /\ EndsWith(Name(ev.src_path), FlagSuffix)

\* ------------------------------------------------------------------------
\* Initial state: the process has been started, nothing has run yet
\* ------------------------------------------------------------------------
\* time.time() when the process starts, which is also when the files of the
\* tree were last written
StartTime == 0

Init ==
    /\ pc = "load"
    /\ token = PyNone
    /\ token_file \in TokenFiles
    /\ quiescent_check \in BOOLEAN
    /\ files \in Trees
    /\ mtime = [f \in AllFiles |-> 0]
    /\ now = StartTime
    /\ touched = 0
    /\ flag_path = NoPath
    /\ run_id = 0
    /\ todo = {}
    /\ subdir = NoPath
    /\ subtodo = {}
    /\ log = <<>>
    /\ outcome = "none"
    /\ event = NoEvent
    /\ queue = <<>>
    /\ main = "init"
    /\ delivered = 0
    /\ handled = 0
    /\ logins = 0
    /\ runs = 0

world == << quiescent_check, files >>
clock == << mtime, now, touched >>
event_vars == << flag_path, run_id, todo, subdir, subtodo >>
counters == << delivered, handled >>
threads == << event, queue, main >>

\* ------------------------------------------------------------------------
\* Startup: APIClient.__init__, then main() starts the observer
\* ------------------------------------------------------------------------
\* __init__: self._load_token()
LoadToken ==
    /\ pc = "load"
    /\ token' = load_token(token_file, token)
    /\ pc' = "verify"
    /\ UNCHANGED << token_file, world, clock, event_vars, log, outcome,
                    counters, threads, logins, runs >>

\* __init__: if not self._is_token_valid(); with a valid token main() starts
\* the observer and enters its sleep loop
InitVerify ==
    /\ pc = "verify"
    /\ \E resp \in Responses :
        /\ log' = log \o ProbeLog(token, resp)
        /\ pc' = IF is_token_valid(token, resp) THEN "idle" ELSE "init_auth"
        /\ main' = IF is_token_valid(token, resp) THEN "loop" ELSE main
    /\ UNCHANGED << token, token_file, world, clock, event_vars, outcome,
                    counters, event, queue, logins, runs >>

\* __init__: self.authenticate(); self._save_token().  An exception leaves
\* main() and ends the process before the observer is started; otherwise
\* main() starts the observer and enters its sleep loop.
InitAuthenticate ==
    /\ pc = "init_auth"
    /\ \E resp \in Responses, access \in AccessValues(logins + 1) :
        /\ log' = Append(log, login(resp, access))
        /\ token' = authenticate_token(token, resp, access)
        /\ IF authenticate_raises(resp, access)
           THEN /\ pc' = "exited"
                /\ main' = "exited"
                /\ UNCHANGED << token_file, logins >>
           ELSE /\ pc' = "idle"
                /\ main' = "loop"
                /\ token_file' = save_token(token')
                /\ logins' = logins + 1
    /\ UNCHANGED << world, clock, event_vars, outcome, counters, event, queue,
                    runs >>

\* ------------------------------------------------------------------------
\* The observer thread: on_created
\* ------------------------------------------------------------------------
\* a dispatcher that would call the handler while a call is running
dispatcher_free_always == TRUE

\* the observer thread is between two handler calls
dispatcher_free == pc = "idle"

\* the watcher's emitter puts a creation event in the observer's queue
EmitWhen(busy) ==
    /\ main = "loop"
    /\ (dispatcher_free /\ queue = <<>>) = ~busy
    /\ delivered + Len(queue) < MaxEvents
    /\ \E e \in Events : queue' = Append(queue, e)
    /\ UNCHANGED << pc, token, token_file, world, clock, event_vars, log,
                    outcome, counters, event, main, logins, runs >>

\* an event arrives while the observer thread waits with an empty queue
Emit == EmitWhen(FALSE)

\* an event arrives while a handler runs or other events are waiting
EmitBusy == EmitWhen(TRUE)

\* the observer thread takes the oldest event of its queue and calls
\* on_created, which returns when _handle_flag has returned
on_created ==
    /\ dispatcher_free
    /\ main = "loop"
    /\ queue # <<>>
    /\ event' = Head(queue)
    /\ queue' = Tail(queue)
    /\ delivered' = delivered + 1
    /\ UNCHANGED main
    /\ LET ev == Head(queue) IN
        IF is_flag_event(ev)
        THEN /\ flag_path' = ev.src_path
             /\ handled' = handled + 1
             /\ pc' = "ensure"
             /\ log' = <<>>
             /\ outcome' = "running"
             /\ run_id' = 0
             /\ todo' = {}
             /\ subdir' = NoPath
             /\ subtodo' = {}
        ELSE UNCHANGED << pc, event_vars, log, outcome, handled >>
    /\ UNCHANGED << token, token_file, world, clock, logins, runs >>

\* _handle_flag without the "if self.quiescent_check" loop
AfterEnsure_no_gate == "create"

\* where _handle_flag goes after the session is ensured
AfterEnsure == IF quiescent_check THEN "quiescent" ELSE "create"

\* _handle_flag: if not self.client._is_token_valid()
EnsureValid ==
    /\ pc = "ensure"
    /\ \E resp \in Responses :
        /\ log' = log \o ProbeLog(token, resp)
        /\ pc' = IF is_token_valid(token, resp) THEN AfterEnsure ELSE "reauth"
    /\ UNCHANGED << token, token_file, world, clock, event_vars, outcome,
                    counters, threads, logins, runs >>

\* _handle_flag: self.client.authenticate(); self.client._save_token().
\* An exception leaves _handle_flag and on_created and ends the observer
\* thread, whose loop catches nothing but queue.Empty.
Reauthenticate ==
    /\ pc = "reauth"
    /\ \E resp \in Responses, access \in AccessValues(logins + 1) :
        /\ log' = Append(log, login(resp, access))
        /\ token' = authenticate_token(token, resp, access)
        /\ IF authenticate_raises(resp, access)
           THEN /\ pc' = "dead"
                /\ outcome' = "aborted"
                /\ UNCHANGED << token_file, logins >>
           ELSE /\ pc' = AfterEnsure
                /\ token_file' = save_token(token')
                /\ logins' = logins + 1
                /\ UNCHANGED outcome
    /\ UNCHANGED << world, clock, event_vars, counters, threads, runs >>

\* _handle_flag: while not self._is_directory_quiescent(run_dir)
QuiescentCheck ==
    /\ pc = "quiescent"
    /\ IF quiescent_raises(run_dir)
       THEN /\ log' = Append(log, Entry("quiescent", run_dir, "raise", 0, PyNone))
            /\ pc' = "dead"
            /\ outcome' = "aborted"
       ELSE /\ log' = Append(log, Entry("quiescent", run_dir,
                   IF is_directory_quiescent(run_dir) THEN "true" ELSE "false",
                   0, PyNone))
            /\ pc' = IF is_directory_quiescent(run_dir) THEN "create" ELSE "sleep"
            /\ UNCHANGED outcome
    /\ UNCHANGED << token, token_file, world, clock, event_vars, counters,
                    threads, logins, runs >>

\* a sleep that never returns
Sleep_never_returns == FALSE

\* _handle_flag: time.sleep(self.quiet_period)
Sleep ==
    /\ pc = "sleep"
    /\ now' = now + QuietPeriod
    /\ pc' = "quiescent"
    /\ UNCHANGED << token, token_file, world, mtime, touched, event_vars, log,
                    outcome, counters, threads, logins, runs >>

\* the file of a directory's subtree its writer is still writing: one of the
\* files that lie deepest
Deepest(S) == CHOOSE f \in S : \A g \in S : Len(g) <= Len(f)

\* the writer of the run directory modifies the file it is still writing
\* while the handler sleeps
Touch ==
    /\ pc = "sleep"
    /\ touched < MaxTouch
    /\ mtime' = [mtime EXCEPT ![Deepest({f \in files : IsUnder(run_dir, f)})] = now]
    /\ touched' = touched + 1
    /\ UNCHANGED << pc, token, token_file, world, now, event_vars, log, outcome,
                    counters, threads, logins, runs >>

\* _handle_flag: run = self.client.create_run(run_name); run_id = run.get("id")
CreateRun ==
    /\ pc = "create"
    /\ \E resp \in Responses :
        /\ log' = Append(log, create_run(run_name, token, resp, runs + 1))
        /\ IF create_run_raises(resp)
           THEN /\ pc' = "dead"
                /\ outcome' = "aborted"
                /\ UNCHANGED << run_id, todo, runs >>
           ELSE /\ pc' = "iterdir"
                /\ run_id' = runs + 1
                /\ runs' = runs + 1
                /\ todo' = iterdir(run_dir)
                /\ UNCHANGED outcome
    /\ UNCHANGED << token, token_file, world, clock, flag_path, subdir, subtodo,
                    counters, threads, logins >>

\* _handle_flag: one turn of "for sub in run_dir.iterdir()", in whatever
\* order the directory lists its children; the loop's end completes the event
IterDir ==
    /\ pc = "iterdir"
    /\ IF todo = {}
       THEN /\ pc' = "idle"
            /\ outcome' = "completed"
            /\ UNCHANGED << log, todo, subdir, subtodo >>
       ELSE \E sub \in todo :
            /\ todo' = todo \ {sub}
            /\ IF is_dir(sub)
               THEN /\ pc' = "subdir"
                    /\ subdir' = sub
                    /\ subtodo' = rglob(sub)
                    /\ UNCHANGED << log, outcome >>
               ELSE IF is_root_target(sub, flag_path)
               THEN \E resp \in UploadResponses :
                    /\ log' = Append(log, upload_file(run_id, sub, token, resp))
                    /\ IF upload_file_raises(resp)
                       THEN pc' = "dead" /\ outcome' = "aborted"
                       ELSE UNCHANGED << pc, outcome >>
                    /\ UNCHANGED << subdir, subtodo >>
               ELSE UNCHANGED << pc, log, outcome, subdir, subtodo >>
    /\ UNCHANGED << token, token_file, world, clock, flag_path, run_id,
                    counters, threads, logins, runs >>

\* _upload_subdir: one turn of "for file in subdir.rglob('*')"; the loop's
\* end returns to _handle_flag
UploadSubdir ==
    /\ pc = "subdir"
    /\ IF subtodo = {}
       THEN /\ pc' = "iterdir"
            /\ UNCHANGED << log, subtodo >>
       ELSE \E file \in subtodo :
            /\ subtodo' = subtodo \ {file}
            /\ UNCHANGED pc
            /\ IF is_file(file)
               THEN \E resp \in UploadResponses :
                    log' = Append(log, upload_file(run_id, file, token, resp))
               ELSE UNCHANGED log
    /\ UNCHANGED << token, token_file, world, clock, flag_path, run_id, todo,
                    subdir, outcome, counters, threads, logins, runs >>

\* ------------------------------------------------------------------------
\* The main thread: the sleep loop, KeyboardInterrupt, stop() and join()
\* ------------------------------------------------------------------------
\* main: except KeyboardInterrupt: observer.stop(); then observer.join()
\* begins.  stop() only asks the observer thread to end.
Interrupt ==
    /\ main = "loop"
    /\ main' = "join"
    /\ UNCHANGED << pc, token, token_file, world, clock, event_vars, log,
                    outcome, counters, event, queue, logins, runs >>

\* the observer thread, asked to stop, ends once it is between two handler
\* calls
ObserverExit ==
    /\ main = "join"
    /\ dispatcher_free
    /\ pc' = "stopped"
    /\ UNCHANGED << token, token_file, world, clock, event_vars, log, outcome,
                    counters, threads, logins, runs >>

\* main: observer.join() returns when the observer thread has ended, and
\* the process exits
Join ==
    /\ main = "join"
    /\ pc \in {"stopped", "dead"}
    /\ main' = "exited"
    /\ UNCHANGED << pc, token, token_file, world, clock, event_vars, log,
                    outcome, counters, event, queue, logins, runs >>

Next ==
    \/ LoadToken
    \/ InitVerify
    \/ InitAuthenticate
    \/ Emit
    \/ on_created
    \/ EnsureValid
    \/ Reauthenticate
    \/ QuiescentCheck
    \/ Sleep
    \/ Touch
    \/ CreateRun
    \/ IterDir
    \/ UploadSubdir

Spec == Init /\ [][Next]_vars

\* ------------------------------------------------------------------------
\* Reading the log of the current event
\* ------------------------------------------------------------------------
Ops(op) == {i \in DOMAIN log : log[i].op = op}

\* an orchestration pass has started (the log is that of a flag event)
InEvent == outcome # "none"

\* the pass is over
Ended == InEvent /\ pc \in {"idle", "dead"}

LoginOk(i) ==
    log[i].op = "login" /\ ~Raises(log[i].res) /\ Truthy(log[i].tok)

ProbeOk(i) == log[i].op = "probe" /\ log[i].res = Http(200)

CreateOk(i) == log[i].op = "create_run" /\ ~Raises(log[i].res)

CreateFailed(i) == log[i].op = "create_run" /\ Raises(log[i].res)

UploadFailed(i) == log[i].op = "upload_file" /\ Raises(log[i].res)

\* the files upload_file was called for
Attempted == {log[i].arg : i \in Ops("upload_file")}

\* the regular files under the run directory, the flag file excepted
UploadTargets == {f \in files : IsUnder(run_dir, f)} \ {flag_path}

\* the upload targets inside child subdirectories of the run directory
SubdirTargets == {f \in UploadTargets : Len(f) > Len(run_dir) + 1}

\* ------------------------------------------------------------------------
\* Claims
\* ------------------------------------------------------------------------

\* C1: if the create_run request of a flag event fails, the event is
\* aborted and no upload_file request is issued for it.
C1_RunCreationAbort ==
    InEvent =>
        \A i \in DOMAIN log :
            CreateFailed(i) => outcome = "aborted" /\ Ops("upload_file") = {}

\* a create_run was rejected for a run directory that holds a file to upload
C1_Witness ==
    /\ InEvent
    /\ flag_path = P_FLAG
    /\ P_DATA \in files
    /\ \E i \in DOMAIN log : CreateFailed(i) /\ log[i].res = Http(500)
    /\ pc = "dead"

\* C2: a failed upload of any upload target does not abort the event: once
\* the run is created the event ends Completed with every upload target
\* attempted.
C2_UploadFailureContained ==
    (Ended /\ \E i \in DOMAIN log : CreateOk(i)) =>
        outcome = "completed" /\ Attempted = UploadTargets

\* C3: when the upload of a file inside a subdirectory fails, every file of
\* the subdirectories is still attempted and the event ends Completed.
C3_SubdirFailureContained ==
    (Ended /\ \E i \in DOMAIN log :
                  UploadFailed(i) /\ log[i].arg \in SubdirTargets) =>
        outcome = "completed" /\ SubdirTargets \subseteq Attempted

\* C4: with the quiescence gate enabled, a quiescence check has returned
\* true before the event issues its identity probe or its login.
C4_QuiescenceBeforeSession ==
    (InEvent /\ quiescent_check) =>
        \A i \in DOMAIN log :
            log[i].op \in {"probe", "login"} =>
                \E j \in 1..(i - 1) :
                    log[j].op = "quiescent" /\ log[j].res = "true"

\* C5: create_run is issued only after the event's session-ensure step has
\* succeeded (probe answered 200, or login returned a token) and after all
\* its probe and login requests; every upload_file comes after a successful
\* create_run of the event and carries the run id it returned.
C5_SessionCreateUploadOrder ==
    InEvent =>
        /\ \A c \in Ops("create_run") :
            /\ \E j \in 1..(c - 1) :
                /\ ProbeOk(j) \/ LoginOk(j)
                /\ \A k \in (j + 1)..(c - 1) : log[k].op \notin {"probe", "login"}
            /\ \A k \in Ops("probe") \cup Ops("login") : k < c
        /\ \A u \in Ops("upload_file") :
            \E c \in 1..(u - 1) :
                /\ CreateOk(c)
                /\ log[u].id = log[c].id
                /\ log[c].id = run_id
        /\ Cardinality(Ops("create_run")) <= 1

\* the second run of the process uploads a file after a login
C5_Witness ==
    /\ InEvent
    /\ handled = 2
    /\ \E j \in DOMAIN log : LoginOk(j)
    /\ \E u \in Ops("upload_file") : log[u].id = 2

\* C6: the flag file is never passed to upload_file, and an event that ends
\* Completed with no failed upload has attempted exactly the regular files
\* under the run directory other than the flag file.
C6_UploadSet ==
    InEvent =>
        /\ flag_path \notin Attempted
        /\ (outcome = "completed" /\ \A i \in DOMAIN log : ~UploadFailed(i)) =>
               Attempted = UploadTargets

\* a completed pass over a run directory with a root file, a subdirectory
\* file and a file named like the flag inside a subdirectory
C6_Witness ==
    /\ outcome = "completed"
    /\ flag_path = P_FLAG
    /\ P_FLAG \in files
    /\ \A i \in DOMAIN log : ~UploadFailed(i)
    /\ Attempted = {P_DATA, P_LOGS_A, P_BAM_FLAG}

\* C7: an error that aborts one flag event leaves the subscription running:
\* the observer thread is back waiting for the next event.
C7_ErrorContainedToEvent ==
    outcome = "aborted" => pc = "idle"

\* the session-ensure step (at startup or in a flag event) is over
PastEnsure == pc \notin {"load", "verify", "ensure"}

\* the step found the session invalid in one of the ways C8 names: no
\* token held (no probe was sent), a 4xx answer, or a transport error
FoundInvalid ==
    /\ PastEnsure
    /\ \/ Ops("probe") = {}
       \/ \E i \in Ops("probe") :
            \/ log[i].res.exc
            \/ 400 <= log[i].res.status /\ log[i].res.status < 500

\* C8: when the session-ensure step finds no token, a 4xx probe answer or a
\* transport error, it issues exactly one login request; a successful login
\* replaces the in-memory token and the token file holds the same token;
\* create_run and upload_file come only after that successful login.
C8_ReauthOnInvalid ==
    FoundInvalid =>
        /\ Cardinality(Ops("login")) =
               (IF pc \in {"init_auth", "reauth"} THEN 0 ELSE 1)
        /\ \A l \in Ops("login") :
            /\ LoginOk(l) => token = log[l].tok /\ token_file = File(token.s)
            /\ \A k \in Ops("create_run") \cup Ops("upload_file") :
                   LoginOk(l) /\ l < k

\* a flag event whose probe was answered 401 logged in, stored the new
\* token and went on to create its run
C8_Witness ==
    /\ InEvent
    /\ \E i \in Ops("probe") : log[i].res = Http(401)
    /\ \E l \in Ops("login") : LoginOk(l) /\ token = log[l].tok
    /\ token # PyStr(StoredToken)
    /\ token_file = File(token.s)
    /\ Ops("create_run") # {}

\* the step of _is_token_valid in which a held token's probe is answered 200
HealthyProbeStep ==
    /\ pc \in {"verify", "ensure"}
    /\ Truthy(token)
    /\ log' # log
    /\ log'[Len(log')].res = Http(200)

\* C9: when a token is held and the probe answers 200, the session-ensure
\* step issues that one probe and no login and leaves the in-memory token
\* and the token file as they were; an event that starts with a healthy
\* probe holds one probe and no login.
C9_TokenIdempotency ==
    /\ [][HealthyProbeStep =>
            /\ log' = Append(log, Entry("probe", NoPath, Http(200), 0, token))
            /\ token' = token
            /\ token_file' = token_file
            /\ logins' = logins
            /\ pc' = (IF pc = "verify" THEN "idle" ELSE AfterEnsure)]_vars
    /\ [](InEvent /\ log # <<>> /\ ProbeOk(1) =>
            Cardinality(Ops("probe")) = 1 /\ Ops("login") = {})

\* the second flag event in a row under the stored token: no login was ever
\* issued and the session is the one read at startup
C9_Witness ==
    /\ handled = 2
    /\ logins = 0
    /\ token = PyStr(StoredToken)
    /\ token_file \in {File(StoredToken), File(StoredToken \o <<WS>>)}
    /\ pc = "create"
    /\ log # <<>>
    /\ ProbeOk(1)

\* C10: the quiescence check on a directory whose subtree holds no regular
\* file returns true without raising.
C10_EmptyDirectoryQuiescent ==
    \A i \in Ops("quiescent") :
        {f \in files : IsUnder(log[i].arg, f)} = {} => log[i].res = "true"

\* the regular files of the run directory's subtree
RunFiles == {f \in files : IsUnder(run_dir, f)}

\* C11: on a run directory that holds a regular file, the quiescence check
\* returns true exactly when every regular file of the subtree was last
\* modified more than the quiet period before the time of this check (an
\* age equal to the quiet period is not enough).
C11_QuiescenceThreshold ==
    [][(pc = "quiescent" /\ pc' # pc /\ RunFiles # {}) =>
          LET aged == \A f \in RunFiles : now - mtime[f] > QuietPeriod
          IN  /\ pc' = (IF aged THEN "create" ELSE "sleep")
              /\ log' = Append(log, Entry("quiescent", run_dir,
                                   IF aged THEN "true" ELSE "false", 0, PyNone))
       ]_vars

\* a check has just returned false on a directory whose newest file is
\* exactly one quiet period old, after its writer modified that file during
\* the wait; another file of the directory is older
C11_Witness ==
    /\ pc = "sleep"
    /\ touched >= 1
    /\ log # <<>>
    /\ log[Len(log)].op = "quiescent"
    /\ log[Len(log)].res = "false"
    /\ \E f \in RunFiles :
        /\ now - mtime[f] = QuietPeriod
        /\ \A g \in RunFiles : mtime[g] <= mtime[f]
        /\ \E g \in RunFiles : mtime[g] < mtime[f]

\* the created entry is not a directory and the last piece of its name is
\* the flag suffix
NamesFlag(e) ==
    /\ ~e.is_directory
    /\ e.src_path[Len(e.src_path)][Len(e.src_path[Len(e.src_path)])] = ".done"

\* C12: a creation event starts an orchestration pass exactly when the
\* created entry is not a directory and its name ends with the flag suffix;
\* the pass works on the entry's parent directory and names the run after
\* that directory; any other event issues no request and changes nothing.
C12_WatcherFilter ==
    /\ [][delivered' = delivered + 1 =>
            IF NamesFlag(event')
            THEN /\ handled' = handled + 1
                 /\ outcome' = "running"
                 /\ flag_path' = event'.src_path
                 /\ log' = <<>>
            ELSE UNCHANGED << pc, token, token_file, world, clock, event_vars,
                              log, outcome, handled, logins, runs, main >>]_vars
    /\ [][handled' # handled => delivered' = delivered + 1]_vars
    /\ [](InEvent =>
            \A i \in DOMAIN log :
                /\ log[i].op = "create_run" =>
                       log[i].arg = flag_path[Len(flag_path) - 1]
                /\ log[i].op = "quiescent" =>
                       log[i].arg = SubSeq(flag_path, 1, Len(flag_path) - 1)
                /\ log[i].op = "upload_file" =>
                       /\ Len(log[i].arg) >= Len(flag_path)
                       /\ SubSeq(log[i].arg, 1, Len(flag_path) - 1)
                              = SubSeq(flag_path, 1, Len(flag_path) - 1))

\* a pass for the flag run42/bam/upload.done has created the run "bam";
\* afterwards the creation of the directory archive.done was ignored
C12_Witness ==
    /\ pc = "idle"
    /\ outcome = "completed"
    /\ flag_path = P_BAM_FLAG
    /\ \E i \in Ops("create_run") : log[i].arg = N_BAM
    /\ event = [is_directory |-> TRUE, src_path |-> P_ARCHIVE]
    /\ delivered = 2
    /\ handled = 1

\* the session-ensure step of the current event succeeded: the probe was
\* answered 200, or the login that followed returned a token
EnsureOk == \E i \in DOMAIN log : ProbeOk(i) \/ LoginOk(i)

\* C13: a flag event issues at most one create_run request, and exactly one
\* once its session-ensure step has succeeded; nothing is remembered between
\* events, so every flag event gets its own pass and its own create_run.
C13_OneRunPerEvent ==
    InEvent =>
        /\ Cardinality(Ops("create_run")) <= 1
        /\ (Ended /\ EnsureOk) => Cardinality(Ops("create_run")) = 1

\* the part of C13 that does not depend on the quiescence check raising
C13_OneRunUnlessCheckRaises ==
    InEvent =>
        /\ Cardinality(Ops("create_run")) <= 1
        /\ (Ended /\ EnsureOk /\ \A i \in Ops("quiescent") : log[i].res # "raise")
               => Cardinality(Ops("create_run")) = 1

\* ------------------------------------------------------------------------
\* Events that arrive while the handler is running
\* ------------------------------------------------------------------------
\* the process starts with a stored token and watches a run directory with
\* nested subdirectories
InitQueue ==
    /\ Init
    /\ token_file = File(StoredToken)
    /\ files = {P_FLAG, P_LOGS_A, P_LOGS_OLD_B}

\* the three threads together: the emitter thread also queues events while
\* the observer thread is inside a handler call or has events pending, and
\* the main thread may be interrupted at any moment
NextQueue ==
    \/ Next
    \/ EmitBusy
    \/ Interrupt
    \/ ObserverExit
    \/ Join

SpecQueue == InitQueue /\ [][NextQueue]_vars

\* C14: at most one flag event's pass is in progress at any time: a pass
\* starts only when the handler is not running, every request is issued by
\* the one pass in progress and is appended to that pass's requests, and
\* events are handed to the handler in the order in which they were queued.
C14_OneAtATimeInOrder ==
    /\ [][handled' = handled + 1 => pc = "idle" /\ outcome # "running"]_vars
    /\ [][(InEvent /\ log' # log /\ handled' = handled) =>
            /\ outcome = "running"
            /\ flag_path' = flag_path
            /\ Len(log') = Len(log) + 1
            /\ SubSeq(log', 1, Len(log)) = log]_vars
    /\ [][delivered' = delivered + 1 =>
            event' = Head(queue) /\ queue' = Tail(queue)]_vars
    /\ [][(queue' # queue /\ delivered' = delivered) =>
            \E e \in Events : queue' = Append(queue, e)]_vars

\* a pass is about to create its run while a second flag event, queued after
\* the pass began, waits in the observer's queue
C14_Witness ==
    /\ pc = "create"
    /\ outcome = "running"
    /\ delivered = 1
    /\ Len(queue) = 1
    /\ NamesFlag(Head(queue))

\* C15: every create_run and upload_file request carries a bearer token, and
\* the session holds a non-empty token in every state from which one of
\* them is issued.
C15_BearerOnEveryRequest ==
    /\ \A i \in Ops("create_run") \cup Ops("upload_file") :
           /\ Truthy(log[i].tok)
           /\ log[i].tok.s # <<>>
    /\ pc \in {"quiescent", "sleep", "create", "iterdir", "subdir"}
           => (Truthy(token) /\ token.s # <<>>)

\* an event whose probe was refused logged in again, and its create_run and
\* an upload carry the token that login returned
C15_Witness ==
    /\ InEvent
    /\ \E i \in Ops("login"), j \in Ops("create_run"), k \in Ops("upload_file") :
           /\ LoginOk(i)
           /\ i < j /\ j < k
           /\ log[j].tok = log[i].tok
           /\ log[k].tok = log[i].tok

\* C16: after the process is interrupted, an event blocked in the sleep of
\* its quiescence wait is interrupted: the handler does not sleep to the end
\* and check again, the observer thread stops instead.
C16_ShutdownInterruptsWait ==
    [][(main = "join" /\ pc = "sleep") => pc' \in {"sleep", "stopped"}]_vars

\* main() has started the observer and no flag event has been handled yet
Started == main = "loop" /\ outcome = "none"

\* startup ended in the exception of a failed login: the observer was never
\* started and no event was queued, delivered or handled
StartupFatal ==
    pc = "exited" =>
        /\ main = "exited"
        /\ queue = <<>> /\ delivered = 0 /\ handled = 0
        /\ log # <<>>
        /\ log[Len(log)].op = "login"
        /\ Raises(log[Len(log)].res) \/ ~Truthy(log[Len(log)].tok)

\* C17 as stated: a failed startup login ends the process before the watcher
\* starts; after a successful startup the token is non-empty and the content
\* of the token file equals the in-memory token.
C17_PersistedCopyEqual ==
    /\ StartupFatal
    /\ Started =>
           /\ Truthy(token)
           /\ token_file.exists
           /\ token_file.content = token.s

\* C17: a failed startup login (request error, or a response without a
\* token) ends the process: the watcher is never started, no event is ever
\* processed, and nothing happens afterwards.  After a successful startup
\* the token is non-empty and the token file, read the way _load_token reads
\* it (surrounding whitespace stripped), holds the in-memory token.  A
\* missing token file is not an error: no probe is sent and a login follows.
C17_StartupAuthentication ==
    /\ [](StartupFatal)
    /\ [][pc = "exited" => UNCHANGED vars]_vars
    /\ [][(pc = "init_auth" /\ pc' # pc) =>
            /\ log'[Len(log')].op = "login"
            /\ (pc' = "exited") =
                   (Raises(log'[Len(log')].res) \/ ~Truthy(log'[Len(log')].tok))
            /\ (pc' # "exited") => (pc' = "idle" /\ main' = "loop")]_vars
    /\ [](Started =>
            /\ Truthy(token)
            /\ token.s # <<>>
            /\ token_file.exists
            /\ Strip(token_file.content) = token.s)
    /\ [][pc = "load" => pc' \in {"load", "verify"}]_vars
    /\ [][(pc = "verify" /\ ~token_file.exists /\ pc' # pc) =>
            (pc' = "init_auth" /\ log' = log)]_vars

\* the token file ended in a newline: the token was loaded without it, the
\* probe accepted it, and the watcher runs with the file left as it was
C17_Witness ==
    /\ Started
    /\ pc = "idle"
    /\ token = PyStr(StoredToken)
    /\ token_file = File(StoredToken \o <<WS>>)
    /\ Ops("probe") # {}
    /\ Ops("login") = {}

QuiescentTrue(i) ==
    log[i].op = "quiescent" /\ log[i].res = "true" /\ log[i].arg = run_dir

QuiescentFalse(i) == log[i].op = "quiescent" /\ log[i].res = "false"

\* C18: with the gate enabled, create_run and every upload_file of an event
\* come after a quiescence check of the run directory that returned true;
\* a check that returned false is followed by nothing but the next check,
\* and the sleep between them issues nothing.  With the gate disabled no
\* check is performed.
C18_QuiescenceGate ==
    /\ [](InEvent =>
            IF quiescent_check
            THEN /\ \A j \in Ops("create_run") \cup Ops("upload_file") :
                        \E i \in 1..(j - 1) : QuiescentTrue(i)
                 /\ \A i \in DOMAIN log :
                        (QuiescentFalse(i) /\ i < Len(log))
                            => log[i + 1].op = "quiescent"
                 /\ pc = "sleep" => QuiescentFalse(Len(log))
            ELSE Ops("quiescent") = {} /\ pc \notin {"quiescent", "sleep"})
    /\ [][pc = "sleep" => (pc' \in {"sleep", "quiescent"} /\ log' = log)]_vars

\* a gated event whose first check returned false slept, checked again,
\* got true, created its run and uploaded a file
C18_Witness ==
    /\ InEvent
    /\ quiescent_check
    /\ \E i, j, k, l \in DOMAIN log :
           /\ i < j /\ j < k /\ k < l
           /\ QuiescentFalse(i)
           /\ QuiescentTrue(j)
           /\ log[k].op = "create_run"
           /\ log[l].op = "upload_file"

\* ------------------------------------------------------------------------
\* Progress of the handler
\* ------------------------------------------------------------------------
\* one step of _handle_flag: a request that returns or fails, a check, a
\* sleep that ends
HandlerStep ==
    \/ EnsureValid
    \/ Reauthenticate
    \/ QuiescentCheck
    \/ Sleep
    \/ CreateRun
    \/ IterDir
    \/ UploadSubdir

\* the process starts with a stored token and watches a run directory with
\* a root-level file, with or without a subdirectory
InitFair ==
    /\ Init
    /\ token_file = File(StoredToken)
    /\ files \in {{P_FLAG, P_DATA}, {P_DATA, P_LOGS_A}}

\* the observer thread keeps running the handler call it is in
FairSpec == InitFair /\ [][Next]_vars /\ WF_vars(HandlerStep)

\* C19: every flag event's pass eventually reaches Completed or Aborted,
\* given that every request returns or fails and that the modifications of
\* the run directory stop.  The quiescence wait has no other way out: it is
\* left only by a check that finds every file older than the quiet period
\* (or by the check raising), and a check that finds a younger file goes
\* back to sleep however many checks came before.
C19_EventTerminates ==
    /\ (outcome = "running") ~> (outcome \in {"completed", "aborted"})
    /\ [][(pc \in {"quiescent", "sleep"} /\ pc' \notin {"quiescent", "sleep"}) =>
            \/ pc' = "create" /\ \A f \in RunFiles : now - mtime[f] > QuietPeriod
            \/ pc' = "dead" /\ outcome' = "aborted" /\ RunFiles = {}]_vars
    /\ [][(pc = "quiescent" /\ pc' # pc
              /\ \E f \in RunFiles : now - mtime[f] <= QuietPeriod)
            => (pc' = "sleep" /\ outcome' = "running")]_vars

\* a gated event waited while its directory was still being modified, then
\* found it quiet and ran to Completed with a file uploaded
C19_Witness ==
    /\ outcome = "completed"
    /\ quiescent_check
    /\ touched >= 1
    /\ Cardinality({i \in DOMAIN log : QuiescentFalse(i)}) >= 2
    /\ Ops("upload_file") # {}

\* the step is a call of authenticate that failed: the login request was
\* rejected or failed, or its response held no token
AuthenticateFailed ==
    /\ pc \in {"init_auth", "reauth"}
    /\ Len(log') = Len(log) + 1
    /\ log'[Len(log')].op = "login"
    /\ Raises(log'[Len(log')].res) \/ ~Truthy(log'[Len(log')].tok)

\* C20: a failed authenticate leaves the in-memory token and the persisted
\* token as they were before the call.
C20_FailedAuthKeepsSession ==
    [][AuthenticateFailed => (token' = token /\ token_file' = token_file)]_vars

\* the part of C20 that holds: a rejected or failed login request changes
\* neither token, and no failed call writes the token file
C20_FailedRequestKeepsSession ==
    [][AuthenticateFailed =>
          /\ token_file' = token_file
          /\ Raises(log'[Len(log')].res) => token' = token]_vars

====
